---- MODULE Spec2Model ----
(***************************************************************************)
(* Verification model of the live-chat relay servers of drywest/timsufun.  *)
(* The repository holds several independent server prototypes; each is     *)
(* modelled as its own state machine over its own group of variables:      *)
(*   - the socket.io listener registry   (src/server.js 274-479)           *)
(*   - the Poller server                 (src/server.js 542-973)           *)
(*   - the WebSocket ChatManager server  (src/server.js 26-252)            *)
(*   - the SSE chat handler / overlay    (src/unnamed/part_002,            *)
(*                                        src/public/overlay.js)           *)
(* A specification of one server leaves the other groups at their initial  *)
(* value.                                                                  *)
(***************************************************************************)
EXTENDS Integers, Sequences, FiniteSets, TLC

\* ------------------------------------------------------------------ bounds
\* sockets (socket.io sockets / WebSocket connections) that may ever connect
NumSockets == 2
\* listener state objects that ensureListener may ever create
MaxStates == 2

\* Poller objects that the subscribe handler may ever construct
MaxPollers == 2
\* continuation tokens the upstream may hand out
NumTokens == 2
\* distinct message ids the upstream may carry
NumIds == 2
\* actions in one upstream response
MaxActions == 2
\* the count of _startLoop invocations saturates here
MaxStarts == 2
\* failureCount saturates here in the lifecycle scenario, and just past
\* MaxFailures in the others (the code compares it with MaxFailures only)
FailCap == 5
\* _startLoop invocations of one Poller that may be unfinished at once
MaxLoops == 2
\* attach attempts of the ChatManager that the history records
MaxAttempts == 5
\* videos the channel may have live, one after the other
NumVideos == 2
\* channelIds and /create requests of the key-based server
NumChannels == 2
MaxCreates == 3
\* runs in the message of one raw event
MaxRuns == 2
\* values Math.random() may return
NumRandoms == 2

Sockets == 1..NumSockets
StateIds == 1..MaxStates
PollerIds == 1..MaxPollers
Tokens == 1..NumTokens
Tasks == 1..MaxLoops
MsgIds == 1..NumIds

VARIABLES
  \* --- socket.io listener registry (src/server.js 274-479)
  listeners,   \* the listeners Map for the one channel: a state id, or NoEntry
  lstate,      \* the state objects ensureListener created: id -> fields
  ltask,       \* the async tasks that hold a reference to a state object
  lsock        \* per socket: connected, and socket.data.channel set by 'join'

VARIABLES
  \* --- Poller server (src/server.js 542-973)
  pollers,     \* the pollers Map for the one videoId: a poller id, or NoEntry
  poller,      \* the Poller objects: id -> fields and the position of its loop
  psock,       \* per socket: connected, and the pollers whose 'disconnect'
               \* listener addClientSocket registered on it
  room,        \* the sockets in the socket.io room named after the videoId
  plog,        \* history per poller: _startLoop calls, ids emitted, stop()
  pround,      \* history: a subscribe immediately followed by its unsubscribe
  scn          \* the scenario of a specification, fixed by its Init: how many
               \* sockets connect, whether the videoId is subscribed again
               \* after its Poller was stopped, the tokens and
               \* actions the upstream uses, the freqMs asked, histories kept

VARIABLES
  \* --- SSE chat handler (src/unnamed/part_002 71-140) and the overlay's
  \*     poll loop (src/public/overlay.js 145-193), one connection
  feed,        \* which of the two runs, its position, continuation, seen set
  flog         \* history per message id: occurrences upstream, events written

VARIABLES
  \* --- WebSocket server (src/server.js 24-252)
  yt,          \* the YT_READY promise: "pending", "ok" or "failed"
  managers,    \* the managers Map for the one channelId: mapped, or NoEntry
  mgr,         \* the ChatManager and the position of its loop
  ws,          \* per WebSocket: the stage of its connection handler, open
  clog,        \* history: the attach attempts and the livechat after each,
               \* kept by the scenarios that do not record broadcasts
  cout         \* history: the event the manager handled last, and what
               \* broadcast() sent for it, in order, and to which sockets

VARIABLES
  \* --- the normalizers: parseActions (src/server.js 133-182), parseChatAction
  \*     (src/server.js 913-973), extractRenderable (src/unnamed/part_002 47-66)
  norm         \* one raw event, and what the normalizer applied to it returned,
               \* call after call

VARIABLES
  \* --- key-based SSE server (src/unnamed/part_003 137-287)
  stream       \* one /sse connection: the position of streamChatSSE, its
               \* videoId, whether the subscriber is still connected, and the
               \* kinds of event written to the response

VARIABLES
  \* --- key-based SSE server, the links file (src/unnamed/part_003 31-39,
  \*     299-338)
  links        \* the content of links.json and the /create requests in progress

VARIABLES
  \* --- yt-proxy Pages function (src/unnamed/part_000 5-55)
  proxy        \* one request: its ?url= target, the position of onRequest, the
               \* host fetched upstream and the answer

lvars == <<listeners, lstate, ltask, lsock>>
pvars == <<pollers, poller, psock, room, plog, pround, scn>>
fvars == <<feed, flog>>
cvars == <<yt, managers, mgr, ws, clog, cout>>
svars == <<stream>>
nvars == <<norm>>
kvars == <<links>>
xvars == <<proxy>>
vars ==
  <<listeners, lstate, ltask, lsock, pollers, poller, psock, room, plog, pround,
    scn, feed, flog, yt, managers, mgr, ws, clog, cout, stream, norm, links, proxy>>
\* what the actions of one server leave alone
notL == <<pvars, fvars, cvars, svars, nvars, kvars, xvars>>
notP == <<lvars, fvars, cvars, svars, nvars, kvars, xvars>>
notF == <<lvars, pvars, cvars, svars, nvars, kvars, xvars>>
notC == <<lvars, pvars, fvars, svars, nvars, kvars, xvars>>
notS == <<lvars, pvars, fvars, cvars, nvars, kvars, xvars>>
notN == <<lvars, pvars, fvars, cvars, svars, kvars, xvars>>
notK == <<lvars, pvars, fvars, cvars, svars, nvars, xvars>>
notX == <<lvars, pvars, fvars, cvars, svars, nvars, kvars>>

NoEntry == 0
NoVideo == 0
LiveVideo == 1

(***************************************************************************)
(* socket.io listener registry                                             *)
(***************************************************************************)

\* the object literal of ensureListener, before it is created: a free slot
FreshState ==
  [sockets |-> {}, youtube |-> FALSE, livechat |-> "none",
   videoId |-> NoVideo, pollTimer |-> "none"]

IdleTask == [ensure |-> "none", joiner |-> 0, start |-> "idle", tick |-> "idle"]

LInit ==
  /\ listeners = NoEntry
  /\ lstate = [st \in StateIds |-> FreshState]
  /\ ltask = [st \in StateIds |-> IdleTask]
  /\ lsock = [s \in Sockets |-> [connected |-> TRUE, channel |-> FALSE]]

Created(st) == ltask[st].ensure # "none"
FreeStates == {st \in StateIds : ~Created(st)}

\* startLivechatForVideo up to its first await: stops the previous live chat,
\* sets state.videoId, then calls state.youtube.getInfo (a TypeError caught by
\* its own try when stopListenerIfIdle has set state.youtube to null)
StartLivechatEnter(rec, vid) ==
  [rec EXCEPT !.livechat = "none", !.videoId = vid]

StartAwaits(rec) == rec.youtube

\* tryStartOnce after getLiveVideoIdFromChannel answered vid
TryStartRec(rec, vid) ==
  IF vid # NoVideo /\ vid # rec.videoId THEN StartLivechatEnter(rec, vid) ELSE rec

TryStartPc(rec, vid, pc) ==
  IF vid # NoVideo /\ vid # rec.videoId /\ StartAwaits(rec) THEN "getInfo" ELSE pc

\* socket.on('join'): ensureListener returns the mapped state at once, or
\* creates one, maps it and awaits Innertube.create()
Join(s) ==
  /\ lsock[s].connected /\ ~lsock[s].channel
  /\ lsock' = [lsock EXCEPT ![s].channel = TRUE]
  /\ IF listeners # NoEntry
       THEN /\ lstate' = [lstate EXCEPT ![listeners].sockets = @ \cup {s}]
            /\ UNCHANGED <<listeners, ltask>>
       ELSE /\ FreeStates # {}
            /\ LET st == CHOOSE x \in FreeStates : \A y \in FreeStates : x <= y
               IN /\ listeners' = st
                  /\ ltask' = [ltask EXCEPT ![st].ensure = "create", ![st].joiner = s]
                  /\ UNCHANGED lstate
  /\ UNCHANGED notL

\* ensureListener: Innertube.create() settles
CreateDone(st, ok) ==
  /\ ltask[st].ensure = "create"
  /\ IF ok
       THEN /\ lstate' = [lstate EXCEPT ![st].youtube = TRUE]
            /\ ltask' = [ltask EXCEPT ![st].ensure = "resolve"]
       ELSE \* return state; the join handler adds the socket
            /\ lstate' = [lstate EXCEPT ![st].sockets = @ \cup {ltask[st].joiner}]
            /\ ltask' = [ltask EXCEPT ![st].ensure = "done"]
  /\ UNCHANGED <<listeners, lsock>>
  /\ UNCHANGED notL

\* ensureListener: the immediate tryStartOnce settles, the interval is set,
\* the state is returned and the join handler adds the socket
EnsureResolved(st, vid) ==
  /\ ltask[st].ensure = "resolve"
  /\ lstate' = [lstate EXCEPT ![st] =
         [TryStartRec(@, vid) EXCEPT !.pollTimer = "active",
                                     !.sockets = @ \cup {ltask[st].joiner}]]
  /\ ltask' = [ltask EXCEPT ![st].ensure = "done",
                            ![st].start = TryStartPc(lstate[st], vid, @)]
  /\ UNCHANGED <<listeners, lsock>>
  /\ UNCHANGED notL

\* startLivechatForVideo: state.youtube.getInfo settles; on success the live
\* chat is started and stored in state.livechat
GetInfoDone(st, ok) ==
  /\ ltask[st].start = "getInfo"
  /\ ltask' = [ltask EXCEPT ![st].start = "idle"]
  /\ lstate' = IF ok THEN [lstate EXCEPT ![st].livechat = "started"] ELSE lstate
  /\ UNCHANGED <<listeners, lsock>>
  /\ UNCHANGED notL

\* an interval that neither looks at state.sockets nor is ever cleared
PollTickUnguarded(st) ==
  /\ lstate[st].pollTimer # "none"
  /\ lstate[st].videoId = NoVideo
  /\ ltask[st].tick = "idle"
  /\ ltask' = [ltask EXCEPT ![st].tick = "resolve"]
  /\ UNCHANGED <<listeners, lstate, lsock>>
  /\ UNCHANGED notL

\* the setInterval callback of ensureListener
PollTick(st) ==
  /\ lstate[st].pollTimer = "active"
  /\ lstate[st].sockets # {}
  /\ lstate[st].videoId = NoVideo
  /\ ltask[st].tick = "idle"
  /\ ltask' = [ltask EXCEPT ![st].tick = "resolve"]
  /\ UNCHANGED <<listeners, lstate, lsock>>
  /\ UNCHANGED notL

\* the tryStartOnce of a tick settles
TickResolved(st, vid) ==
  /\ ltask[st].tick = "resolve"
  /\ lstate' = [lstate EXCEPT ![st] = TryStartRec(@, vid)]
  /\ ltask' = [ltask EXCEPT ![st].tick = "idle",
                            ![st].start = TryStartPc(lstate[st], vid, @)]
  /\ UNCHANGED <<listeners, lsock>>
  /\ UNCHANGED notL

\* livechat.on("end")
ChatEnded(st) ==
  /\ lstate[st].livechat = "started"
  /\ lstate' = [lstate EXCEPT ![st].livechat = "ended", ![st].videoId = NoVideo]
  /\ UNCHANGED <<listeners, ltask, lsock>>
  /\ UNCHANGED notL

\* stopListenerIfIdle applied to the mapped state object rec
StopListenerIfIdle(rec) ==
  IF rec.sockets = {}
    THEN [rec EXCEPT !.pollTimer = IF @ = "active" THEN "cleared" ELSE @,
                     !.livechat = "none", !.youtube = FALSE]
    ELSE rec

\* socket.on('disconnect')
Disconnect(s) ==
  /\ lsock[s].connected
  /\ lsock' = [lsock EXCEPT ![s].connected = FALSE]
  /\ IF lsock[s].channel /\ listeners # NoEntry
       THEN LET rec == [lstate[listeners] EXCEPT !.sockets = @ \ {s}]
            IN /\ lstate' = [lstate EXCEPT ![listeners] = StopListenerIfIdle(rec)]
               /\ listeners' = IF rec.sockets = {} THEN NoEntry ELSE listeners
       ELSE UNCHANGED <<listeners, lstate>>
  /\ UNCHANGED ltask
  /\ UNCHANGED notL

LNext ==
  \/ \E s \in Sockets : Join(s)
  \/ \E st \in StateIds, ok \in BOOLEAN : CreateDone(st, ok)
  \/ \E st \in StateIds, vid \in {NoVideo, LiveVideo} : EnsureResolved(st, vid)
  \/ \E st \in StateIds, ok \in BOOLEAN : GetInfoDone(st, ok)
  \/ \E st \in StateIds : PollTick(st)
  \/ \E st \in StateIds, vid \in {NoVideo, LiveVideo} : TickResolved(st, vid)
  \/ \E st \in StateIds : ChatEnded(st)
  \/ \E s \in Sockets : Disconnect(s)

(***************************************************************************)
(* Poller server                                                           *)
(***************************************************************************)

MinFreqMs == 250
DefaultFreqMs == 700
\* the freqMs a subscribe message may carry (NoFreq: none given)
NoFreq == 0
FreqInputs == {NoFreq, 100, 400}
\* if (this.failureCount > 3)
MaxFailures == 3
NullTok == 0

Max(a, b) == IF a >= b THEN a ELSE b

\* a slot of a Poller not constructed yet
NoPollerRec ==
  [made |-> FALSE, freqMs |-> DefaultFreqMs, running |-> FALSE, timer |-> "none",
   timerOf |-> 1, apiKey |-> FALSE, continuation |-> NullTok, clientSockets |-> {},
   graceStopTimeout |-> "null", fetching |-> FALSE, failureCount |-> 0,
   sent |-> NullTok, pc |-> [t \in Tasks |-> "none"]]

\* constructor(videoId, freqMs)
NewPoller(freqMs) ==
  [NoPollerRec EXCEPT !.made = TRUE, !.freqMs = Max(MinFreqMs, freqMs)]

NoLog ==
  [starts |-> 0, emitted |-> {}, lastBatch |-> <<>>, seenBefore |-> {},
   stopped |-> FALSE, stopClients |-> {}, initFailed |-> FALSE,
   cancelled |-> FALSE, got |-> NullTok, reinitPage |-> {}, events |-> {},
   late |-> FALSE, disorder |-> FALSE, owed |-> <<>>]

NoRound ==
  [phase |-> "none", sock |-> 0, had |-> FALSE, clients |-> {}, freqMs |-> 0,
   running |-> FALSE, grace |-> "null", asked |-> NoFreq]

\* no Poller constructed yet; the sockets of the scenario are connected
PInitWith(scenario) ==
  /\ pollers = NoEntry
  /\ poller = [pid \in PollerIds |-> NoPollerRec]
  /\ psock = [s \in Sockets |-> [connected |-> s <= scenario.sockets, listeners |-> {}]]
  /\ room = {}
  /\ plog = [pid \in PollerIds |-> NoLog]
  /\ pround = NoRound
  /\ scn = scenario

\* the lifecycle scenario: every socket, one Poller, one token, short responses
Lifecycle ==
  [sockets |-> NumSockets, again |-> FALSE, tokens |-> NumTokens - 1,
   actions |-> MaxActions - 1, freqs |-> {NoFreq}, hist |-> {}, failcap |-> FailCap]

\* the registry scenario: as Lifecycle, with a Poller constructed again after
\* the first was stopped
Registry == [Lifecycle EXCEPT !.again = TRUE]

PInit == PInitWith(Lifecycle)

FreePollers == {pid \in PollerIds : ~poller[pid].made /\ (scn.again \/ pid = 1)}

\* setFreq without its floor of 250 ms
SetFreqNoFloor(rec, ms) == [rec EXCEPT !.freqMs = ms]

\* setFreq(ms)
SetFreq(rec, ms) == [rec EXCEPT !.freqMs = Max(MinFreqMs, ms)]

\* _ensureInit() returns at once: if (!force && apiKey && continuation && clientVersion)
Inited(rec) == rec.apiKey /\ rec.continuation # NullTok

\* payload.continuation of the _fetchOnce being issued, kept as the sent
\* field in the scenarios that follow the cursor
Payload(rec) == IF "cursor" \in scn.hist THEN rec.continuation ELSE rec.sent

\* the head of the while loop with the re-entrancy guard left out
LoopHeadNoGuard(rec, t) ==
  IF rec.running
    THEN [rec EXCEPT !.fetching = TRUE, !.pc[t] = "fetch", !.sent = Payload(rec)]
    ELSE [rec EXCEPT !.pc[t] = "ended"]

\* the head of the while loop of _startLoop as loop task t reaches it: not
\* running, the loop leaves through its finally block; while another
\* _fetchOnce is pending (this.fetching) it waits 20 ms and tests again; else
\* it sets fetching and issues the next _fetchOnce, whose payload carries
\* this.continuation (sent)
LoopHead(rec, t) ==
  IF ~rec.running THEN [rec EXCEPT !.pc[t] = "ended"]
  ELSE IF rec.fetching THEN [rec EXCEPT !.pc[t] = "guard"]
  ELSE [rec EXCEPT !.fetching = TRUE, !.pc[t] = "fetch", !.sent = Payload(rec)]

\* a loop task is unfinished while it is at an await that will settle
AliveAt == {"init", "fetch", "guard", "wait", "reinit"}
LoopAlive(rec) == \E t \in Tasks : rec.pc[t] \in AliveAt
FreeTasks(rec) == {t \in Tasks : rec.pc[t] \notin AliveAt}
NextTask(rec) == CHOOSE t \in FreeTasks(rec) : \A u \in FreeTasks(rec) : t <= u

\* start(): a no-op while running, else running = true and a new _startLoop()
\* task runs to its first pending await
StartPoller(rec) ==
  IF rec.running THEN rec
  ELSE IF Inited(rec)
    THEN LoopHead([rec EXCEPT !.running = TRUE], NextTask(rec))
    ELSE [rec EXCEPT !.running = TRUE, !.pc[NextTask(rec)] = "init"]

\* addClientSocket that leaves a scheduled auto-stop in place
AddClientSocketKeepsTimer(rec, s) == [rec EXCEPT !.clientSockets = @ \cup {s}]

\* addClientSocket(socket)
AddClientSocket(rec, s) ==
  [rec EXCEPT !.clientSockets = @ \cup {s}, !.graceStopTimeout = "null"]

\* hasClients(): drops the disconnected sockets, then size > 0
Alive(clients, conn) == {c \in clients : conn[c].connected}
HasClients(rec, conn) == Alive(rec.clientSockets, conn) # {}

\* removeClientSocket that schedules no graceful stop
RemoveClientSocketNoGrace(rec, s, conn) ==
  [rec EXCEPT !.clientSockets = Alive(@ \ {s}, conn)]

\* removeClientSocket(socket), conn the sockets' connected flags
RemoveClientSocket(rec, s, conn) ==
  LET left == Alive(rec.clientSockets \ {s}, conn)
  IN IF left # {}
       THEN [rec EXCEPT !.clientSockets = left]
       ELSE [rec EXCEPT !.clientSockets = left,
                        !.graceStopTimeout = IF @ = "null" THEN "pending" ELSE @]

\* stop(): running = false, the wait timer held in this.timer is cleared when
\* pending (the promise of the loop task that set it then never resolves)
StopPoller(rec) ==
  [rec EXCEPT !.running = FALSE, !.timer = "none",
              !.pc = IF rec.timer = "pending"
                       THEN [rec.pc EXCEPT ![rec.timerOf] = "hung"] ELSE @]

\* the finally of the loop body, then the wait at the foot of the loop:
\* setTimeout(..., this.freqMs), this.timer = t
EnterWait(rec, t) ==
  [rec EXCEPT !.fetching = FALSE, !.timer = "pending", !.timerOf = t, !.pc[t] = "wait"]

\* the popout page as _ensureInit reads it: whether an api key is found, and
\* the continuation found (NullTok: none)
Pages == [key : BOOLEAN, cont : {NullTok} \cup (1..scn.tokens)]

ApplyPage(rec, page) ==
  [rec EXCEPT !.apiKey = @ \/ page.key,
              !.continuation = IF page.cont # NullTok THEN page.cont ELSE @]

\* an upstream action: a chat message with an id, an action of another kind,
\* or a malformed one on which parseChatAction throws
OtherKind == 0
Malformed == -1
Actions == MsgIds \cup {OtherKind, Malformed}
RECURSIVE SeqsUpTo(_, _)
SeqsUpTo(S, n) ==
  IF n = 0 THEN {<<>>}
  ELSE LET shorter == SeqsUpTo(S, n - 1)
       IN shorter \cup {Append(q, x) : q \in {r \in shorter : Len(r) = n - 1}, x \in S}
Responses == [cont : {NullTok} \cup (1..scn.tokens), actions : SeqsUpTo(Actions, scn.actions)]

IsMsg(a) == a \in MsgIds

\* a parsed array built with unshift: the newest message first
ParsedNewestFirst(actions) ==
  LET kept == SelectSeq(actions, IsMsg)
  IN [i \in 1..Len(kept) |-> kept[Len(kept) + 1 - i]]

\* the parsed array of _fetchOnce
Parsed(actions) == SelectSeq(actions, IsMsg)

Throws(actions) == \E i \in 1..Len(actions) : actions[i] = Malformed

\* history: the k-th message of batch comes from the k-th action of actions
\* that is a message
InOrder(batch, actions) ==
  LET idx == {i \in 1..Len(actions) : actions[i] \in MsgIds}
      nth(k) == CHOOSE i \in idx : Cardinality({j \in idx : j < i}) = k - 1
  IN /\ Len(batch) = Cardinality(idx)
     /\ \A k \in 1..Len(batch) : batch[k] = actions[nth(k)]

Range(q) == {q[i] : i \in 1..Len(q)}

Bump(n) == IF n < MaxStarts THEN n + 1 ELSE n

\* history of subscribe on the Poller rec: a _startLoop call when it was not
\* running, a pending grace timer cleared by addClientSocket
LogSubscribe(log, rec) ==
  [log EXCEPT !.starts = IF rec.running THEN @ ELSE Bump(@),
              !.initFailed = IF rec.running THEN @ ELSE FALSE,
              !.cancelled = @ \/ rec.graceStopTimeout = "pending"]

\* history of subscribe: the Poller as it was before the handler ran
Snapshot(s, f) ==
  IF "round" \notin scn.hist THEN NoRound
  ELSE IF pollers = NoEntry
    THEN [NoRound EXCEPT !.phase = "subscribed", !.sock = s, !.asked = f]
    ELSE [phase |-> "subscribed", sock |-> s, had |-> TRUE,
          clients |-> poller[pollers].clientSockets,
          freqMs |-> poller[pollers].freqMs,
          running |-> poller[pollers].running,
          grace |-> poller[pollers].graceStopTimeout, asked |-> f]

\* socket.on('subscribe')
Subscribe(s, f) ==
  /\ psock[s].connected
  /\ room' = room \cup {s}
  /\ pround' = Snapshot(s, f)
  /\ IF pollers = NoEntry
       THEN /\ FreePollers # {}
            /\ LET pid == CHOOSE x \in FreePollers : \A y \in FreePollers : x <= y
                   made == NewPoller(IF f # NoFreq THEN f ELSE DefaultFreqMs)
               IN /\ pollers' = pid
                  /\ poller' = [poller EXCEPT ![pid] = AddClientSocket(StartPoller(made), s)]
                  /\ plog' = [plog EXCEPT ![pid] = LogSubscribe(@, made)]
                  /\ psock' = [psock EXCEPT ![s].listeners = @ \cup {pid}]
       ELSE LET p == poller[pollers]
                q == IF f # NoFreq /\ f < p.freqMs THEN SetFreq(p, f) ELSE p
            IN /\ poller' = [poller EXCEPT ![pollers] = AddClientSocket(StartPoller(q), s)]
               /\ plog' = [plog EXCEPT ![pollers] = LogSubscribe(@, p)]
               /\ psock' = [psock EXCEPT ![s].listeners = @ \cup {pollers}]
               /\ UNCHANGED pollers
  /\ UNCHANGED scn
  /\ UNCHANGED notP

\* socket.on('unsubscribe')
Unsubscribe(s) ==
  /\ psock[s].connected
  /\ pollers # NoEntry
  /\ poller' = [poller EXCEPT ![pollers] = RemoveClientSocket(@, s, psock)]
  /\ room' = IF s \in poller[pollers].clientSockets THEN room \ {s} ELSE room
  /\ pround' = IF pround.phase = "subscribed" /\ pround.sock = s
                 THEN [pround EXCEPT !.phase = "done"] ELSE NoRound
  /\ UNCHANGED <<pollers, psock, plog, scn>>
  /\ UNCHANGED notP

\* a socket disconnects: the connection's 'disconnect' handler runs
\* removeClientSocket on every mapped poller, then the listeners that
\* addClientSocket registered run it on their pollers
PDisconnect(s) ==
  /\ psock[s].connected
  /\ LET conn == [psock EXCEPT ![s].connected = FALSE]
     IN /\ psock' = conn
        /\ poller' = [pid \in PollerIds |->
                        IF pid = pollers \/ pid \in psock[s].listeners
                          THEN RemoveClientSocket(poller[pid], s, conn)
                          ELSE poller[pid]]
  /\ room' = room \ {s}
  /\ pround' = NoRound
  /\ UNCHANGED <<pollers, plog, scn>>
  /\ UNCHANGED notP

\* the callback of the 20 s timer of removeClientSocket
GraceFire(pid) ==
  /\ poller[pid].graceStopTimeout = "pending"
  /\ LET rec == [poller[pid] EXCEPT !.graceStopTimeout = "fired",
                                    !.clientSockets = Alive(@, psock)]
     IN IF ~HasClients(poller[pid], psock)
          THEN /\ poller' = [poller EXCEPT ![pid] = StopPoller(rec)]
               /\ pollers' = NoEntry
               /\ plog' = [plog EXCEPT ![pid].stopped = TRUE,
                                       ![pid].stopClients = rec.clientSockets]
          ELSE /\ poller' = [poller EXCEPT ![pid] = rec]
               /\ UNCHANGED <<pollers, plog>>
  /\ pround' = NoRound
  /\ UNCHANGED <<psock, room, scn>>
  /\ UNCHANGED notP

\* _startLoop: the first _ensureInit() settles; a rejected fetch or a page
\* without api key or continuation throws, and the catch ends the loop
InitDone(pid, t, thrown, page) ==
  /\ poller[pid].pc[t] = "init"
  /\ LET rec == IF thrown THEN poller[pid] ELSE ApplyPage(poller[pid], page)
     IN IF thrown \/ ~Inited(rec)
          THEN /\ poller' = [poller EXCEPT ![pid] =
                              [rec EXCEPT !.running = FALSE, !.pc[t] = "ended"]]
               /\ plog' = [plog EXCEPT ![pid].initFailed = TRUE]
          ELSE /\ poller' = [poller EXCEPT ![pid] = LoopHead(rec, t)]
               /\ UNCHANGED plog
  /\ pround' = NoRound
  /\ UNCHANGED <<pollers, psock, room, scn>>
  /\ UNCHANGED notP

\* the catch of the loop body: failureCount++, and past MaxFailures the
\* forced _ensureInit(true) is awaited
FetchFailed(rec, t) ==
  LET n == IF rec.failureCount < scn.failcap THEN rec.failureCount + 1 ELSE scn.failcap
  IN IF n > MaxFailures
       THEN [rec EXCEPT !.failureCount = n, !.pc[t] = "reinit"]
       ELSE EnterWait([rec EXCEPT !.failureCount = n], t)

\* _fetchOnce settles with a rejected or non-OK fetch
FetchError(pid, t) ==
  /\ poller[pid].pc[t] = "fetch"
  /\ poller' = [poller EXCEPT ![pid] = FetchFailed(@, t)]
  /\ plog' = [plog EXCEPT ![pid].got = NullTok]
  /\ pround' = NoRound
  /\ UNCHANGED <<pollers, psock, room, scn>>
  /\ UNCHANGED notP

\* _fetchOnce that drops the continuation of the response
TakeCursorNever(rec, cont) == rec

\* const cont = extractContinuationFromResponse(json); if (cont) this.continuation = cont
TakeCursor(rec, cont) ==
  [rec EXCEPT !.continuation = IF cont # NullTok THEN cont ELSE @]

\* what _fetchOnce emits to the room for the actions of one response
Emit(log, actions) ==
  IF "order" \in scn.hist
    THEN IF Throws(actions) \/ Parsed(actions) = <<>> THEN log
         ELSE [log EXCEPT !.disorder = @ \/ ~InOrder(Parsed(actions), actions),
                          !.events = @ \cup {IF Head(Parsed(actions)) # Parsed(actions)[Len(Parsed(actions))]
                                               THEN "chatBatchOfMany" ELSE "chatBatch"}]
  ELSE IF "emit" \notin scn.hist THEN log
  ELSE IF Throws(actions) \/ Parsed(actions) = <<>>
    THEN [log EXCEPT !.lastBatch = <<>>, !.seenBefore = log.emitted,
                     !.owed = SelectSeq(actions, IsMsg)]
    ELSE [log EXCEPT !.lastBatch = Parsed(actions), !.seenBefore = log.emitted,
                     !.owed = SelectSeq(actions, IsMsg),
                     !.emitted = @ \cup Range(Parsed(actions)),
                     !.events = @ \cup {"chatBatch"}, !.late = @ \/ log.stopped]

\* history of _fetchOnce: the continuation the response of the last fetch
\* carried when that fetch succeeded, else NullTok
LogCursor(log, resp) ==
  IF "cursor" \notin scn.hist THEN log
  ELSE [log EXCEPT !.got = IF Throws(resp.actions) THEN NullTok ELSE resp.cont,
                   !.reinitPage = {}]

\* history of the forced _ensureInit(true): the continuation its page carried
\* when it returned without throwing
LogReinit(log, done, page) ==
  IF "cursor" \notin scn.hist THEN log
  ELSE [log EXCEPT !.got = NullTok, !.reinitPage = IF done THEN {page.cont} ELSE {}]

\* _fetchOnce settles with a response: the continuation is taken over, the
\* actions are parsed and the parsed array, when not empty, is emitted
FetchDone(pid, t, resp) ==
  /\ poller[pid].pc[t] = "fetch"
  /\ LET rec == TakeCursor(poller[pid], resp.cont)
     IN poller' = [poller EXCEPT ![pid] =
           IF Throws(resp.actions) THEN FetchFailed(rec, t)
           ELSE EnterWait([rec EXCEPT !.failureCount = 0], t)]
  /\ plog' = [plog EXCEPT ![pid] = LogCursor(Emit(@, resp.actions), resp)]
  /\ pround' = NoRound
  /\ UNCHANGED <<pollers, psock, room, scn>>
  /\ UNCHANGED notP

\* the forced _ensureInit(true) after repeated failures settles; when it
\* throws the exception leaves the while loop and the outer catch ends it
ReinitDone(pid, t, thrown, page) ==
  /\ poller[pid].pc[t] = "reinit"
  /\ LET rec == IF thrown THEN poller[pid] ELSE ApplyPage(poller[pid], page)
     IN /\ poller' = [poller EXCEPT ![pid] =
              IF thrown \/ ~Inited(rec)
                THEN [rec EXCEPT !.fetching = FALSE, !.running = FALSE, !.pc[t] = "ended"]
                ELSE EnterWait([rec EXCEPT !.failureCount = 0], t)]
        /\ plog' = [plog EXCEPT ![pid] = LogReinit(@, ~thrown /\ Inited(rec), page)]
  /\ pround' = NoRound
  /\ UNCHANGED <<pollers, psock, room, scn>>
  /\ UNCHANGED notP

\* the wait timer fires and the while condition is tested again
WaitDone(pid, t) ==
  /\ poller[pid].pc[t] = "wait"
  /\ poller' = [poller EXCEPT ![pid] =
        LoopHead([@ EXCEPT !.timer = IF @ = "pending" /\ poller[pid].timerOf = t
                                       THEN "fired" ELSE @], t)]
  /\ pround' = NoRound
  /\ UNCHANGED <<pollers, psock, room, plog, scn>>
  /\ UNCHANGED notP

\* the 20 ms timer of the re-entrancy guard fires: continue
GuardDone(pid, t) ==
  /\ poller[pid].pc[t] = "guard"
  /\ poller' = [poller EXCEPT ![pid] = LoopHead(@, t)]
  /\ pround' = NoRound
  /\ UNCHANGED <<pollers, psock, room, plog, scn>>
  /\ UNCHANGED notP

\* start() called on a Poller object by any caller; a call that would need
\* more than MaxLoops unfinished loop tasks is left out
ApiStart(pid) ==
  /\ poller[pid].made
  /\ poller[pid].running \/ FreeTasks(poller[pid]) # {}
  /\ poller' = [poller EXCEPT ![pid] = StartPoller(@)]
  /\ pround' = NoRound
  /\ UNCHANGED <<pollers, psock, room, plog, scn>>
  /\ UNCHANGED notP

\* stop() called on a Poller object by any caller
ApiStop(pid) ==
  /\ poller[pid].made
  /\ poller' = [poller EXCEPT ![pid] = StopPoller(@)]
  /\ pollers' = NoEntry
  /\ plog' = [plog EXCEPT ![pid].stopped = TRUE]
  /\ pround' = NoRound
  /\ UNCHANGED <<psock, room, scn>>
  /\ UNCHANGED notP

PNext ==
  \/ \E s \in Sockets, f \in scn.freqs : Subscribe(s, f)
  \/ \E s \in Sockets : Unsubscribe(s)
  \/ \E s \in Sockets : PDisconnect(s)
  \/ \E pid \in PollerIds : GraceFire(pid)
  \/ \E pid \in PollerIds, t \in Tasks :
        /\ poller[pid].pc[t] = "init"
        /\ \E thrown \in BOOLEAN, page \in Pages : InitDone(pid, t, thrown, page)
  \/ \E pid \in PollerIds, t \in Tasks : FetchError(pid, t)
  \/ \E pid \in PollerIds, t \in Tasks :
        /\ poller[pid].pc[t] = "fetch"
        /\ \E resp \in Responses : FetchDone(pid, t, resp)
  \/ \E pid \in PollerIds, t \in Tasks :
        /\ poller[pid].pc[t] = "reinit"
        /\ \E thrown \in BOOLEAN, page \in Pages : ReinitDone(pid, t, thrown, page)
  \/ \E pid \in PollerIds, t \in Tasks : WaitDone(pid, t)

\* the Poller class driven through start() and stop() directly: the steps of
\* its loop tasks, of which several may be unfinished, and the two calls
ApiNext ==
  \/ \E pid \in PollerIds : ApiStart(pid)
  \/ \E pid \in PollerIds : ApiStop(pid)
  \/ \E pid \in PollerIds, t \in Tasks :
        /\ poller[pid].pc[t] = "init"
        /\ \E thrown \in BOOLEAN, page \in Pages : InitDone(pid, t, thrown, page)
  \/ \E pid \in PollerIds, t \in Tasks : FetchError(pid, t)
  \/ \E pid \in PollerIds, t \in Tasks :
        /\ poller[pid].pc[t] = "fetch"
        /\ \E resp \in Responses : FetchDone(pid, t, resp)
  \/ \E pid \in PollerIds, t \in Tasks :
        /\ poller[pid].pc[t] = "reinit"
        /\ \E thrown \in BOOLEAN, page \in Pages : ReinitDone(pid, t, thrown, page)
  \/ \E pid \in PollerIds, t \in Tasks : WaitDone(pid, t)
  \/ \E pid \in PollerIds, t \in Tasks : GuardDone(pid, t)

(***************************************************************************)
(* SSE chat handler (/sse) and the overlay's poll loop                     *)
(***************************************************************************)

\* a chat message action carrying id whose author photo thumbnails is not an
\* array: reading it throws after the id was read
Broken(id) == Malformed - id
BrokenId(a) == Malformed - a
IsBroken(a) == a < Malformed
FeedActions == Actions \cup {Broken(id) : id \in MsgIds}
FeedResponses ==
  [cont : {NullTok} \cup Tokens, actions : SeqsUpTo(FeedActions, MaxActions)]

NoFeed ==
  [kind |-> "none", pc |-> "idle", closed |-> FALSE, listening |-> FALSE,
   alive |-> FALSE, continuation |-> NullTok, seen |-> {}]

FInit ==
  /\ feed = NoFeed
  /\ flog = [presented |-> [id \in MsgIds |-> 0], written |-> [id \in MsgIds |-> 0]]

\* the body of the for loop of the /sse handler on one action: seen the ids
\* seen, out the chat events written, thrown whether the body threw
SseStep(st, a) ==
  IF a = Malformed \/ IsBroken(a) THEN [st EXCEPT !.thrown = TRUE]
  ELSE IF a = OtherKind \/ a \in st.seen THEN st
  ELSE [st EXCEPT !.seen = @ \cup {a}, !.out = Append(@, a)]

\* the body of the for loop of the overlay on one action
OverlayStep(st, a) ==
  IF a = Malformed THEN [st EXCEPT !.thrown = TRUE]
  ELSE IF a = OtherKind THEN st
  ELSE IF IsBroken(a)
    THEN IF BrokenId(a) \in st.seen THEN st
         ELSE [st EXCEPT !.seen = @ \cup {BrokenId(a)}, !.thrown = TRUE]
  ELSE IF a \in st.seen THEN st
  ELSE [st EXCEPT !.seen = @ \cup {a}, !.out = Append(@, a)]

\* the for loop over resp.actions inside the try block: it ends at the first
\* action on which the body throws
RECURSIVE Consume(_, _, _)
Consume(kind, st, actions) ==
  IF actions = <<>> \/ st.thrown THEN st
  ELSE Consume(kind,
               IF kind = "sse" THEN SseStep(st, Head(actions))
                               ELSE OverlayStep(st, Head(actions)),
               Tail(actions))

\* how often id occurs in a sequence of actions, as a sound or a broken message
Occurs(id, actions) ==
  Cardinality({i \in 1..Len(actions) : actions[i] = id \/ actions[i] = Broken(id)})
AddCapped(n, k) == IF n + k < MaxStarts THEN n + k ELSE MaxStarts

\* the request arrives (/sse) or the overlay script starts
FeedOpen(kind) ==
  /\ feed.pc = "idle"
  /\ feed' = [feed EXCEPT !.kind = kind, !.pc = "setup"]
  /\ UNCHANGED flog
  /\ UNCHANGED notF

\* the steps before the loop settle: the live video is resolved, its info is
\* loaded and the initial continuation read; without a live chat the handler
\* ends
FeedSetup(ok, cont) ==
  /\ feed.pc = "setup"
  /\ feed' = IF ok
               THEN [feed EXCEPT !.continuation = cont, !.seen = {}, !.alive = TRUE,
                                 !.listening = (feed.kind = "sse"), !.pc = "fetch"]
               ELSE [feed EXCEPT !.pc = "ended"]
  /\ UNCHANGED flog
  /\ UNCHANGED notF

\* getContinuation / getChat settles with a response
FeedFetchDone(resp) ==
  /\ feed.pc = "fetch"
  /\ LET st == Consume(feed.kind, [seen |-> feed.seen, out |-> <<>>, thrown |-> FALSE],
                       resp.actions)
     IN /\ feed' = [feed EXCEPT !.continuation = resp.cont, !.seen = st.seen,
                                !.pc = "wait"]
        /\ flog' = [presented |-> [id \in MsgIds |->
                                     AddCapped(flog.presented[id], Occurs(id, resp.actions))],
                    written |-> [id \in MsgIds |->
                                   AddCapped(flog.written[id], Occurs(id, st.out))]]
  /\ UNCHANGED notF

\* getContinuation / getChat rejects: the catch block, then the wait
FeedFetchError ==
  /\ feed.pc = "fetch"
  /\ feed' = [feed EXCEPT !.pc = "wait"]
  /\ UNCHANGED flog
  /\ UNCHANGED notF

\* the 350 ms wait is over and the while condition is tested
FeedWaitDone ==
  /\ feed.pc = "wait"
  /\ feed' = [feed EXCEPT !.pc = IF feed.alive THEN "fetch" ELSE "ended"]
  /\ UNCHANGED flog
  /\ UNCHANGED notF

\* the subscriber's connection closes: req 'close', heard once the listener
\* is registered
FeedClose ==
  /\ feed.kind = "sse"
  /\ ~feed.closed
  /\ feed' = [feed EXCEPT !.closed = TRUE,
                          !.alive = IF feed.listening THEN FALSE ELSE @]
  /\ UNCHANGED flog
  /\ UNCHANGED notF

FNext ==
  \/ \E kind \in {"sse", "overlay"} : FeedOpen(kind)
  \/ \E ok \in BOOLEAN, cont \in {NullTok} \cup Tokens : FeedSetup(ok, cont)
  \/ \E resp \in FeedResponses : FeedFetchDone(resp)
  \/ FeedFetchError
  \/ FeedWaitDone
  \/ FeedClose

(***************************************************************************)
(* WebSocket server: ChatManager                                           *)
(***************************************************************************)

Mapped == 1

\* constructor(channelId, yt)
NewManager ==
  [livechat |-> "null", timer |-> "null", stopped |-> FALSE, clients |-> {},
   pc |-> "none"]

\* nothing handled, nothing broadcast
NoOut == [evt |-> <<>>, sent |-> <<>>]

CInit ==
  /\ yt = "pending"
  /\ managers = NoEntry
  /\ mgr = NewManager
  /\ ws = [s \in Sockets |-> [stage |-> "none", open |-> FALSE]]
  /\ clog = <<>>
  /\ cout = NoOut

\* { type: 'status', text } as broadcast by loop() and the 'end' and 'error'
\* handlers: "waiting" and "ended" are fixed strings, "errortext" carries
\* String(e?.message || e)
Status(text) == [type |-> "status", text |-> text, id |-> NoEntry]

\* { type: 'single', message: m } for the message parsed from action id
Single(id) == [type |-> "single", text |-> "", id |-> id]

\* broadcast(msg) that sends to every open socket of the server
BroadcastToAll(log, rec, msg) ==
  Append(log, [msg |-> msg, to |-> {c \in Sockets : ws[c].open}])

\* broadcast(msg): ws.send to every client whose readyState is OPEN
Broadcast(log, rec, msg) ==
  Append(log, [msg |-> msg, to |-> {c \in rec.clients : ws[c].open}])

\* the history after a handler ran for evt and broadcast sent
Out(evt, sent) ==
  IF "out" \in scn.hist THEN [evt |-> evt, sent |-> sent] ELSE cout

\* for (const m of parseActions(arr)) this.broadcast({ type: 'single', ... })
RECURSIVE BroadcastEach(_, _, _)
BroadcastEach(log, rec, ids) ==
  IF ids = <<>> THEN log
  ELSE BroadcastEach(Broadcast(log, rec, Single(Head(ids))), rec, Tail(ids))

\* the finally block of loop() that leaves the timer unset after a failed attach
LoopFinallyWhenAttached(rec) ==
  IF rec.livechat = "started"
    THEN [rec EXCEPT !.timer = "pending", !.pc = "idle"]
    ELSE [rec EXCEPT !.pc = "idle"]

\* the finally block of loop(): this.timer = setTimeout(() => this.loop(), 800)
LoopFinally(rec) == [rec EXCEPT !.timer = "pending", !.pc = "idle"]

\* loop() that never calls attach()
LoopNoAttach(rec) == IF rec.stopped THEN rec ELSE LoopFinally(rec)

\* loop() up to its first pending await
Loop(rec) ==
  IF rec.stopped THEN rec
  ELSE IF rec.livechat = "null" THEN [rec EXCEPT !.pc = "attach"]
  ELSE LoopFinally(rec)

\* start()
StartManager(rec) == Loop([rec EXCEPT !.stopped = FALSE])

\* addClient(ws)
AddClient(rec, s) == [rec EXCEPT !.clients = @ \cup {s}]

\* a WebSocket connects: the handler runs to await YT_READY, or closes the
\* socket that names no channelId
WsConnect(s, hasChannel) ==
  /\ s \in 1..scn.sockets
  /\ ws[s].stage = "none"
  /\ ws' = [ws EXCEPT ![s] = IF hasChannel THEN [stage |-> "awaiting", open |-> TRUE]
                                           ELSE [stage |-> "handled", open |-> FALSE]]
  /\ UNCHANGED <<yt, managers, mgr, clog, cout>>
  /\ UNCHANGED notC

\* Innertube.create() settles
YtSettled(ok) ==
  /\ yt = "pending"
  /\ yt' = IF ok THEN "ok" ELSE "failed"
  /\ UNCHANGED <<managers, mgr, ws, clog, cout>>
  /\ UNCHANGED notC

\* the connection handler resumes after await YT_READY: the manager is
\* looked up or created and started, and the socket added to it; a rejected
\* YT_READY ends the handler
WsReady(s) ==
  /\ ws[s].stage = "awaiting"
  /\ yt # "pending"
  /\ ws' = [ws EXCEPT ![s].stage = IF yt = "ok" THEN "added" ELSE "handled"]
  /\ IF yt = "ok"
       THEN /\ managers' = Mapped
            /\ mgr' = AddClient(IF managers = NoEntry THEN StartManager(NewManager)
                                                      ELSE mgr, s)
       ELSE UNCHANGED <<managers, mgr>>
  /\ UNCHANGED <<yt, clog, cout>>
  /\ UNCHANGED notC

\* a WebSocket closes: the 'close' listener of addClient, when registered
\* by then, removes it from the clients
WsClose(s) ==
  /\ ws[s].open
  /\ ws' = [ws EXCEPT ![s].open = FALSE]
  /\ mgr' = IF ws[s].stage = "added" THEN [mgr EXCEPT !.clients = @ \ {s}] ELSE mgr
  /\ UNCHANGED <<yt, managers, clog, cout>>
  /\ UNCHANGED notC

\* attach() settles: a live chat was found, set and started, or it threw
\* ('No live found', 'Live chat not available') and loop() catches
AttachDone(ok) ==
  /\ mgr.pc = "attach"
  /\ LET rec == LoopFinally(IF ok THEN [mgr EXCEPT !.livechat = "started"] ELSE mgr)
     IN /\ mgr' = rec
        /\ clog' = IF Len(clog) < MaxAttempts /\ "out" \notin scn.hist
                     THEN Append(clog, [ok |-> ok, livechat |-> rec.livechat])
                     ELSE clog
        /\ cout' = IF ok THEN cout
                          ELSE Out(<<>>, Broadcast(<<>>, mgr, Status("waiting")))
  /\ UNCHANGED <<yt, managers, ws>>
  /\ UNCHANGED notC

\* the 800 ms timer fires: loop()
LoopTick ==
  /\ mgr.timer = "pending"
  /\ mgr' = Loop([mgr EXCEPT !.timer = "fired"])
  /\ UNCHANGED <<yt, managers, ws, clog, cout>>
  /\ UNCHANGED notC

\* the live chat emits 'end' or 'error': the status is broadcast, then
\* chat.stop(), this.livechat = null
ChatStopped(event) ==
  /\ mgr.livechat = "started"
  /\ cout' = Out(<<>>, Broadcast(<<>>, mgr,
                       Status(IF event = "end" THEN "ended" ELSE "errortext")))
  /\ mgr' = [mgr EXCEPT !.livechat = "null"]
  /\ UNCHANGED <<yt, managers, ws, clog>>
  /\ UNCHANGED notC

\* the live chat emits 'chat-update' or 'actions': handle(evt) broadcasts
\* one 'single' per parsed message, or logs the error parseActions threw
Handle(evt) ==
  /\ mgr.livechat = "started"
  /\ cout' = Out(evt, IF Throws(evt) THEN <<>>
                                      ELSE BroadcastEach(<<>>, mgr, Parsed(evt)))
  /\ UNCHANGED <<yt, managers, mgr, ws, clog>>
  /\ UNCHANGED notC

\* stop(): marks the manager stopped, clears the loop timer, stops and drops
\* the live chat; an attach() in flight is not touched
Stop(rec) ==
  [rec EXCEPT !.stopped = TRUE, !.livechat = "null",
              !.timer = IF @ = "pending" THEN "null" ELSE @]

\* a caller of the class stops the mapped manager
ManagerStop ==
  /\ managers = Mapped /\ ~mgr.stopped
  /\ mgr' = Stop(mgr)
  /\ UNCHANGED <<yt, managers, ws, clog, cout>>
  /\ UNCHANGED notC

CNext ==
  \/ \E s \in Sockets, hasChannel \in BOOLEAN : WsConnect(s, hasChannel)
  \/ \E ok \in BOOLEAN : YtSettled(ok)
  \/ \E s \in Sockets : WsReady(s)
  \/ \E s \in Sockets : WsClose(s)
  \/ \E ok \in BOOLEAN : AttachDone(ok)
  \/ LoopTick
  \/ \E event \in {"end", "error"} : ChatStopped(event)
  \/ mgr.livechat = "started" /\ \E evt \in SeqsUpTo(Actions, scn.actions) : Handle(evt)

(***************************************************************************)
(* The normalizers of a raw upstream event                                 *)
(***************************************************************************)

Absent == 0

\* a run of message.runs: a text run, an emoji run, or an object that is
\* neither; val tells the runs of one message apart
Runs == [kind : {"text", "emoji", "other"}, val : 1..MaxRuns]

\* the action wrappers and renderers an event may carry; id, and the two
\* time stamps the normalizers fall back to, may be absent
Wrappers == {"addChatItemAction", "addLiveChatItemAction", "otherAction"}
Renderers == {"text", "paid", "membership", "tickerSponsor", "paidSticker", "other"}

\* raw events of every shape without runs, and text messages with runs
RawEvents ==
  [wrap : Wrappers, kind : Renderers, id : {Absent} \cup MsgIds,
   videoOffsetTimeMsec : BOOLEAN, timestampUsec : BOOLEAN, runs : {<<>>}]
  \cup
  [wrap : {"addChatItemAction"}, kind : {"text"}, id : {Absent} \cup MsgIds,
   videoOffsetTimeMsec : {FALSE}, timestampUsec : {FALSE},
   runs : SeqsUpTo(Runs, MaxRuns) \ {<<>>}]

NoRaw ==
  [wrap |-> "otherAction", kind |-> "other", id |-> Absent,
   videoOffsetTimeMsec |-> FALSE, timestampUsec |-> FALSE, runs |-> <<>>]

NInit == norm = [raw |-> NoRaw, fn |-> "none", res |-> <<>>]

\* return null
NoMsg == [msg |-> FALSE, id |-> [from |-> "none", val |-> Absent], parts |-> <<>>]

\* id || stamp || random: the id of the event, else its time stamp, else the
\* value rnd that Math.random() (and Date.now()) happen to return
IdOf(id, stamped, rnd) ==
  IF id # Absent THEN [from |-> "id", val |-> id]
  ELSE IF stamped THEN [from |-> "stamp", val |-> Absent]
  ELSE [from |-> "random", val |-> rnd]

\* the loop of parseChatAction over message.runs that pushes nothing for a
\* run that is neither text nor emoji
PartsSkipUnknown(runs) ==
  LET known == SelectSeq(runs, LAMBDA r : r.kind # "other")
  IN [i \in 1..Len(known) |-> [type |-> known[i].kind, val |-> known[i].val]]

\* the loop of parseChatAction over message.runs: one part per run, the
\* unknown run as a text part with ''
Parts(runs) ==
  [i \in 1..Len(runs) |->
     IF runs[i].kind = "other" THEN [type |-> "text", val |-> Absent]
     ELSE [type |-> runs[i].kind, val |-> runs[i].val]]

\* runsToHtml: the escaped text of a text run, the <img> of an emoji run,
\* nothing for another run, concatenated in the order of the runs
RECURSIVE RunsToHtml(_)
RunsToHtml(runs) ==
  IF runs = <<>> THEN <<>>
  ELSE (IF Head(runs).kind = "text" THEN <<[type |-> "text", val |-> Head(runs).val]>>
        ELSE IF Head(runs).kind = "emoji" THEN <<[type |-> "img", val |-> Head(runs).val]>>
        ELSE <<>>) \o RunsToHtml(Tail(runs))

\* parseChatAction that takes every renderer for a message
ParseChatActionAnyKind(raw, rnd) ==
  IF raw.wrap # "addChatItemAction" THEN NoMsg
  ELSE [msg |-> TRUE, id |-> IdOf(raw.id, raw.videoOffsetTimeMsec, rnd),
        parts |-> Parts(raw.runs)]

\* parseChatAction(action)
ParseChatAction(raw, rnd) ==
  IF raw.wrap # "addChatItemAction" THEN NoMsg
  ELSE IF raw.kind \notin {"text", "paid", "membership", "tickerSponsor"} THEN NoMsg
  ELSE [msg |-> TRUE, id |-> IdOf(raw.id, raw.videoOffsetTimeMsec, rnd),
        parts |-> Parts(raw.runs)]

\* extractRenderable(action): the runs are handed on as they are
ExtractRenderable(raw, rnd) ==
  IF raw.wrap = "otherAction" THEN NoMsg
  ELSE IF raw.kind \notin {"text", "paid", "membership", "paidSticker"} THEN NoMsg
  ELSE [msg |-> TRUE, id |-> IdOf(raw.id, raw.timestampUsec, rnd),
        parts |-> [i \in 1..Len(raw.runs) |->
                     [type |-> raw.runs[i].kind, val |-> raw.runs[i].val]]]

\* parseActions for one action: no id is given to the message; its html is
\* what runsToHtml makes of the runs
ParseActions(raw, rnd) ==
  IF raw.wrap # "addChatItemAction" THEN NoMsg
  ELSE IF raw.kind \notin {"text", "paid", "membership"} THEN NoMsg
  ELSE [msg |-> TRUE, id |-> [from |-> "none", val |-> Absent],
        parts |-> RunsToHtml(raw.runs)]

Normalizers == {"parseChatAction", "extractRenderable", "parseActions"}

Apply(fn, raw, rnd) ==
  IF fn = "parseChatAction" THEN ParseChatAction(raw, rnd)
  ELSE IF fn = "extractRenderable" THEN ExtractRenderable(raw, rnd)
  ELSE ParseActions(raw, rnd)

\* one normalizer is called on the raw event, a first and a second time
Normalize(fn, rnd) ==
  /\ Len(norm.res) < 2
  /\ norm.fn \in {"none", fn}
  /\ norm' = [norm EXCEPT !.fn = fn, !.res = Append(@, Apply(fn, norm.raw, rnd))]
  /\ UNCHANGED notN

NNext == \E fn \in Normalizers, rnd \in 1..NumRandoms : Normalize(fn, rnd)

(***************************************************************************)
(* Key-based SSE server: streamChatSSE                                     *)
(***************************************************************************)

Videos == 1..NumVideos

\* what liveChat.get() settles with: a page of items with or without a
\* continuation, a rejection, or a page whose item raises in the loop
StreamResponses ==
  [kind : {"page", "rejected", "badItem"}, items : 0..MaxActions,
   continuation : BOOLEAN]

NoStream ==
  [pc |-> "none", videoId |-> NoVideo, connected |-> FALSE, feedEnded |-> FALSE,
   out |-> {}]

SInit == stream = NoStream

\* res.write of one event, res.end() when last
Write(rec, event, last) ==
  [rec EXCEPT !.out = @ \cup {event}, !.pc = IF last THEN "done" ELSE @]

\* the catch of the polling loop: the error event carries String(err?.message
\* || err), then the 3000 ms wait
PollError(rec) == [Write(rec, "errortext", FALSE) EXCEPT !.pc = "errwait"]

\* after the loop: 'Stream ended', res.end()
StreamEnd(rec) == Write(rec, "ended", TRUE)

\* GET /sse?key=KEY with a known key: streamChatSSE up to the first resolve
StreamOpen ==
  /\ stream.pc = "none"
  /\ stream' = [stream EXCEPT !.pc = "resolve", !.connected = TRUE]
  /\ UNCHANGED notS

\* the subscriber goes away; streamChatSSE registers no listener for it
StreamClientClose ==
  /\ stream.connected
  /\ stream' = [stream EXCEPT !.connected = FALSE]
  /\ UNCHANGED notS

\* the first resolveLiveVideoIdForChannel settles
ResolveDone(vid) ==
  /\ stream.pc = "resolve"
  /\ stream' = IF vid = NoVideo THEN Write(stream, "nolive", TRUE)
                ELSE [stream EXCEPT !.videoId = vid, !.pc = "info"]
  /\ UNCHANGED notS

\* youtube.getInfo and info.getLiveChat() settle, before the loop (163-170)
\* or inside it (237-247, 256-264)
InfoDone(outcome) ==
  /\ stream.pc \in {"info", "newinfo"}
  /\ stream' =
       IF outcome = "chat" THEN [stream EXCEPT !.pc = "get"]
       ELSE IF stream.pc = "info"
         THEN Write(stream, IF outcome = "nochat" THEN "nochat" ELSE "errortext", TRUE)
       ELSE IF outcome = "nochat" THEN StreamEnd(stream)
       ELSE PollError(stream)
  /\ UNCHANGED notS

\* liveChat.get() settles: the items are written, then the wait of at least
\* 800 ms starts; a rejection or a raising item goes to the catch
GetDone(resp) ==
  /\ stream.pc = "get"
  /\ resp.kind = "badItem" => resp.items > 0
  /\ LET wrote == IF (resp.kind = "page" /\ resp.items > 0)
                      \/ (resp.kind = "badItem" /\ resp.items > 1)
                    THEN Write(stream, "message", FALSE) ELSE stream
     IN stream' =
          IF resp.kind = "page"
            THEN [wrote EXCEPT !.pc = "wait",
                               !.feedEnded = ~resp.continuation /\ resp.items = 0]
            ELSE PollError(wrote)
  /\ UNCHANGED notS

\* the polling wait ends: the next get, or the re-resolve of an ended feed
StreamWaitDone ==
  /\ stream.pc = "wait"
  /\ stream' = [stream EXCEPT !.pc = IF stream.feedEnded THEN "reresolve" ELSE "get"]
  /\ UNCHANGED notS

\* the re-resolve of line 227 settles
ReresolveDone(vid) ==
  /\ stream.pc = "reresolve"
  /\ stream' = IF vid = NoVideo
                  THEN [Write(stream, "willretry", FALSE) EXCEPT !.pc = "retrywait"]
                  ELSE [stream EXCEPT !.videoId = vid, !.pc = "newinfo"]
  /\ UNCHANGED notS

\* the 5000 ms wait ends: the second resolve is called
RetryWaitDone ==
  /\ stream.pc = "retrywait"
  /\ stream' = [stream EXCEPT !.pc = "retry"]
  /\ UNCHANGED notS

\* the resolve of line 233 settles
RetryDone(vid) ==
  /\ stream.pc = "retry"
  /\ stream' = IF vid # NoVideo /\ vid # stream.videoId
                  THEN [stream EXCEPT !.videoId = vid, !.pc = "newinfo"]
                  ELSE StreamEnd(stream)
  /\ UNCHANGED notS

\* the 3000 ms wait of the catch ends: while (running) calls get again
ErrWaitDone ==
  /\ stream.pc = "errwait"
  /\ stream' = [stream EXCEPT !.pc = "get"]
  /\ UNCHANGED notS

SNext ==
  \/ StreamOpen
  \/ StreamClientClose
  \/ \E vid \in {NoVideo} \cup Videos : ResolveDone(vid)
  \/ \E outcome \in {"chat", "nochat", "throws"} : InfoDone(outcome)
  \/ \E resp \in StreamResponses : GetDone(resp)
  \/ StreamWaitDone
  \/ \E vid \in {NoVideo} \cup Videos : ReresolveDone(vid)
  \/ RetryWaitDone
  \/ \E vid \in {NoVideo} \cup Videos : RetryDone(vid)
  \/ ErrWaitDone

(***************************************************************************)
(* Key-based SSE server: the links file and POST /create                   *)
(***************************************************************************)

Channels == 1..NumChannels
Requests == 1..MaxCreates

\* links.json as an object: key -> channelId of its mapping, NoEntry without
\* one. genKey() draws 48 random bits; the key of request r is modelled as r
\* (no two requests draw the same key)
EmptyLinks == [k \in Requests |-> NoEntry]

NoCreate == [pc |-> "none", channelId |-> NoEntry, obj |-> EmptyLinks, key |-> NoEntry]

KInit == links = [file |-> EmptyLinks, req |-> [r \in Requests |-> NoCreate]]

GenKey(r) == r

\* the for loop of /create over Object.entries(obj): the keys mapped to channelId
KeysOf(obj, channelId) == {k \in Requests : obj[k] = channelId}

\* GET /links/:key answers the mapping (not 404) when the file is read as obj
Resolves(obj, key) == obj[key] # NoEntry

\* POST /create arrives: 400 without a channelId, else readLinks() is awaited
CreateArrive(r, channelId) ==
  /\ links.req[r].pc = "none"
  /\ links' = [links EXCEPT !.req[r] =
        [@ EXCEPT !.channelId = channelId,
                  !.pc = IF channelId = NoEntry THEN "bad" ELSE "read"]]
  /\ UNCHANGED notK

\* readLinks() settles with the content of the file at that moment: an
\* existing mapping of the channel is answered, else a key is generated,
\* added to the object that was read, and writeLinks(obj) is awaited
CreateRead(r) ==
  /\ links.req[r].pc = "read"
  /\ LET obj == links.file
         found == KeysOf(obj, links.req[r].channelId)
     IN links' = [links EXCEPT !.req[r] =
          IF found # {}
            THEN [@ EXCEPT !.pc = "done", !.obj = obj,
                           !.key = CHOOSE k \in found : \A j \in found : k <= j]
            ELSE [@ EXCEPT !.pc = "write", !.key = GenKey(r),
                           !.obj = [obj EXCEPT ![GenKey(r)] = links.req[r].channelId]]]
  /\ UNCHANGED notK

\* writeLinks(obj) settles: the file now holds the request's object, and
\* the key is answered
CreateWritten(r) ==
  /\ links.req[r].pc = "write"
  /\ links' = [links EXCEPT !.file = links.req[r].obj, !.req[r].pc = "done"]
  /\ UNCHANGED notK

KNext ==
  \/ \E r \in Requests, channelId \in {NoEntry} \cup Channels : CreateArrive(r, channelId)
  \/ \E r \in Requests : CreateRead(r)
  \/ \E r \in Requests : CreateWritten(r)

(***************************************************************************)
(* yt-proxy: onRequest                                                     *)
(***************************************************************************)

BadRequest == 400
Forbidden == 403
OkStatus == 200

\* the allow-list of onRequest (two of its seven entries) and host names
\* that are not in it: the bare domain, and a foreign domain that starts
\* with an entry
AllowedHosts == {"www.youtube.com", "i.ytimg.com"}
HostNames == AllowedHosts \cup {"youtube.com", "www.youtube.com.evil.example"}

\* the ?url= parameter as written: present or missing; an absolute URL that
\* new URL() parses or not; its host as spelled (name, upper-cased or not),
\* with or without a "www.youtube.com@" userinfo in front and a port behind
Targets ==
  [present : BOOLEAN, valid : BOOLEAN, userinfo : BOOLEAN,
   host : HostNames, upper : BOOLEAN, port : BOOLEAN]
Methods == {"GET", "POST"}

NoAnswer == [status |-> NoEntry, by |-> "none"]
NoTarget ==
  [present |-> FALSE, valid |-> FALSE, userinfo |-> FALSE,
   host |-> "youtube.com", upper |-> FALSE, port |-> FALSE]
NoProxy ==
  [target |-> NoTarget, method |-> "GET", pc |-> "idle",
   fetched |-> "none", body |-> FALSE, answer |-> NoAnswer]

XInit == proxy = NoProxy

\* new URL(target).hostname: the host of the authority, lower-cased, without
\* userinfo and port
Hostname(t) == t.host

\* an allow-list test on the beginning of the written URL
PermittedByPrefix(t) == t.userinfo \/ Hostname(t) \in AllowedHosts

\* allowedHosts.has(targetURL.hostname)
Permitted(t) == Hostname(t) \in AllowedHosts

\* onRequest up to its answer or to the await of fetch
OnRequest(rec) ==
  IF ~rec.target.present
    THEN [rec EXCEPT !.pc = "done", !.answer = [status |-> BadRequest, by |-> "proxy"]]
  ELSE IF ~rec.target.valid
    THEN [rec EXCEPT !.pc = "done", !.answer = [status |-> NoEntry, by |-> "exception"]]
  ELSE IF ~Permitted(rec.target)
    THEN [rec EXCEPT !.pc = "done", !.answer = [status |-> Forbidden, by |-> "proxy"]]
  ELSE [rec EXCEPT !.pc = "fetch", !.fetched = Hostname(rec.target),
                   !.body = (rec.method \notin {"GET", "HEAD"})]

\* the request is handled
ProxyRequest ==
  /\ proxy.pc = "idle"
  /\ proxy' = OnRequest(proxy)
  /\ UNCHANGED notX

\* fetch settles: the upstream status is passed on, or fetch rejected
ProxyFetchDone(status) ==
  /\ proxy.pc = "fetch"
  /\ proxy' = [proxy EXCEPT !.pc = "done",
         !.answer = IF status = NoEntry THEN [status |-> NoEntry, by |-> "exception"]
                                        ELSE [status |-> status, by |-> "upstream"]]
  /\ UNCHANGED notX

XNext ==
  \/ ProxyRequest
  \/ \E status \in {NoEntry, OkStatus, Forbidden} : ProxyFetchDone(status)

(***************************************************************************)
(* Specifications                                                          *)
(***************************************************************************)

\* the round-trip scenario: one Poller, every freqMs, subscribe/unsubscribe
\* pairs recorded; one continuation token and the shortest responses (a
\* failed fetch is a rejected one), on neither of which a round trip depends
RoundTrips ==
  [sockets |-> NumSockets, again |-> FALSE, tokens |-> 1,
   actions |-> 0, freqs |-> FreqInputs, hist |-> {"round"},
   failcap |-> MaxFailures + 1]

\* the feed scenario: one socket and one Poller, every token and response,
\* the emitted batches recorded
Feed ==
  [sockets |-> NumSockets - 1, again |-> FALSE, tokens |-> NumTokens,
   actions |-> MaxActions, freqs |-> {NoFreq}, hist |-> {"emit"},
   failcap |-> MaxFailures + 1]

\* every server as constructed, the Poller server in one of its scenarios
Init == LInit /\ PInit /\ FInit /\ CInit /\ SInit /\ NInit /\ KInit /\ XInit
InitRegistry == LInit /\ PInitWith(Registry) /\ FInit /\ CInit /\ SInit /\ NInit /\ KInit /\ XInit
InitRound == LInit /\ PInitWith(RoundTrips) /\ FInit /\ CInit /\ SInit /\ NInit /\ KInit /\ XInit
InitFeed == LInit /\ PInitWith(Feed) /\ FInit /\ CInit /\ SInit /\ NInit /\ KInit /\ XInit

SpecListener == Init /\ [][LNext]_vars

\* the 5 s interval fires while it is set, and every awaited promise settles
SpecListenerFair ==
  /\ SpecListener
  /\ \A st \in StateIds :
       /\ WF_vars(PollTick(st))
       /\ WF_vars(\E ok \in BOOLEAN : CreateDone(st, ok))
       /\ WF_vars(\E vid \in {NoVideo, LiveVideo} : EnsureResolved(st, vid))
       /\ WF_vars(\E vid \in {NoVideo, LiveVideo} : TickResolved(st, vid))
       /\ WF_vars(\E ok \in BOOLEAN : GetInfoDone(st, ok))

SpecPoller == Init /\ [][PNext]_vars

\* a timer that is set fires: the 20 s grace timer of removeClientSocket
SpecPollerFair ==
  SpecPoller /\ \A pid \in PollerIds : WF_vars(GraceFire(pid))

SpecPollerRegistry == InitRegistry /\ [][PNext]_vars

SpecPollerRound == InitRound /\ [][PNext]_vars

SpecPollerFeed == InitFeed /\ [][PNext]_vars

\* the cursor scenario: one socket, every token, short responses
Cursors ==
  [sockets |-> NumSockets - 1, again |-> FALSE, tokens |-> NumTokens,
   actions |-> MaxActions - 1, freqs |-> {NoFreq}, hist |-> {"cursor"},
   failcap |-> MaxFailures + 1]

InitCursor == LInit /\ PInitWith(Cursors) /\ FInit /\ CInit /\ SInit /\ NInit /\ KInit /\ XInit

SpecPollerCursor == InitCursor /\ [][PNext]_vars

\* one Poller object constructed and mapped, not started yet, no socket
Api ==
  [sockets |-> NumSockets - 2, again |-> FALSE, tokens |-> NumTokens - 1,
   actions |-> MaxActions - 1, freqs |-> {NoFreq}, hist |-> {},
   failcap |-> MaxFailures + 1]

InitApi ==
  /\ LInit
  /\ pollers = 1
  /\ poller = [pid \in PollerIds |->
                 IF pid = 1 THEN NewPoller(DefaultFreqMs) ELSE NoPollerRec]
  /\ psock = [s \in Sockets |-> [connected |-> s <= Api.sockets, listeners |-> {}]]
  /\ room = {}
  /\ plog = [pid \in PollerIds |-> NoLog]
  /\ pround = NoRound
  /\ scn = Api
  /\ FInit
  /\ CInit
  /\ SInit
  /\ NInit
  /\ KInit
  /\ XInit

\* the Poller class under every sequence of start() and stop() calls
SpecPollerApi == InitApi /\ [][ApiNext]_vars

SpecFeed == Init /\ [][FNext]_vars

\* every awaited promise of the handler settles and its 350 ms wait ends
SpecFeedFair ==
  /\ SpecFeed
  /\ WF_vars(\E ok \in BOOLEAN, cont \in {NullTok} \cup Tokens : FeedSetup(ok, cont))
  /\ WF_vars(FeedFetchError \/ \E resp \in FeedResponses : FeedFetchDone(resp))
  /\ WF_vars(FeedWaitDone)

SpecChat == Init /\ [][CNext]_vars

\* the ChatManager class driven directly: as the server drives it, and stop()
ManagerNext == CNext \/ ManagerStop

SpecManager == Init /\ [][ManagerNext]_vars

\* a timer that is set fires, and an attach() that was called settles
SpecManagerFair ==
  SpecManager /\ WF_vars(LoopTick) /\ WF_vars(\E ok \in BOOLEAN : AttachDone(ok))

SpecStream == Init /\ [][SNext]_vars

SpecLinks == Init /\ [][KNext]_vars

\* onRequest applied to any request
InitProxy ==
  /\ LInit /\ PInit /\ FInit /\ CInit /\ SInit /\ NInit /\ KInit
  /\ proxy \in [target : Targets, method : Methods, pc : {"idle"},
                fetched : {"none"}, body : {FALSE}, answer : {NoAnswer}]

SpecProxy == InitProxy /\ [][XNext]_vars

\* a normalizer applied to any raw event
InitNormalize ==
  /\ LInit /\ PInit /\ FInit /\ CInit /\ SInit /\ KInit /\ XInit
  /\ norm \in [raw : RawEvents, fn : {"none"}, res : {<<>>}]

SpecNormalize == InitNormalize /\ [][NNext]_vars

\* the order scenarios: one socket, one token, the order of the messages of
\* every batch compared with the response; either the Poller server runs or the
\* WebSocket server
OrderPoller ==
  [sockets |-> NumSockets - 1, again |-> FALSE, tokens |-> 1,
   actions |-> MaxActions, freqs |-> {NoFreq}, hist |-> {"order"},
   failcap |-> MaxFailures + 1]

OrderChat == [OrderPoller EXCEPT !.hist = {"out"}]

InitOrder ==
  /\ LInit /\ FInit /\ CInit /\ SInit /\ NInit /\ KInit /\ XInit
  /\ PInitWith(OrderPoller) \/ PInitWith(OrderChat)

OrderNext ==
  \/ "order" \in scn.hist /\ PNext
  \/ "out" \in scn.hist /\ CNext

SpecOrder == InitOrder /\ [][OrderNext]_vars

\* a timer that is set fires, and an attach() that was called settles: its
\* upstream requests resolve or reject
SpecChatFair ==
  SpecChat /\ WF_vars(LoopTick) /\ WF_vars(\E ok \in BOOLEAN : AttachDone(ok))

\* the broadcast scenario: every socket, short events, what broadcast() sent
\* is recorded
Broadcasts ==
  [sockets |-> NumSockets, again |-> FALSE, tokens |-> NumTokens - 1,
   actions |-> MaxActions - 1, freqs |-> {NoFreq}, hist |-> {"out"},
   failcap |-> MaxFailures + 1]

InitOut == LInit /\ PInitWith(Broadcasts) /\ FInit /\ CInit /\ SInit /\ NInit /\ KInit /\ XInit

SpecChatOut == InitOut /\ [][CNext]_vars

\* the same with a timer that fires and an attach() that settles
SpecChatEndFair ==
  SpecChatOut /\ WF_vars(LoopTick) /\ WF_vars(\E ok \in BOOLEAN : AttachDone(ok))

(***************************************************************************)
(* Claims                                                                  *)
(***************************************************************************)

\* a listener state that runs: its interval is set and not cleared, or its
\* live chat was started and neither stopped nor ended
ListenerActive(st) ==
  lstate[st].pollTimer = "active" \/ lstate[st].livechat = "started"

\* C1: at most one listener state of the channel holds an active poll timer
\* or a started live chat, in every interleaving of join and disconnect.
NoDuplicateListener ==
  Cardinality({st \in StateIds : ListenerActive(st)}) <= 1

\* C2: when two subscribers are attached to the same videoId, the one mapped
\* Poller has had its poll loop started exactly once.
PollLoopStartedOnce ==
  \A pid \in PollerIds :
    (pollers = pid /\ Cardinality(poller[pid].clientSockets) >= 2)
      => plog[pid].starts = 1

\* C3: a mapped Poller whose client set is empty either gets a client again
\* or is stopped by the grace timer and removed from the pollers map.
IdleTeardown ==
  \A pid \in PollerIds :
    (pollers = pid /\ poller[pid].clientSockets = {})
      ~> (poller[pid].clientSockets # {} \/ (plog[pid].stopped /\ pollers # pid))

IdleTeardownWitness ==
  \E pid \in PollerIds : plog[pid].stopped /\ pollers # pid /\ plog[pid].cancelled

\* C4: a grace timer is pending only while the client set is empty (a client
\* added before it fires cancels it), and stop() invoked by the grace timer
\* finds the client set empty.
GraceOnlyWhenIdle ==
  \A pid \in PollerIds :
    /\ poller[pid].graceStopTimeout = "pending" => poller[pid].clientSockets = {}
    /\ plog[pid].stopped => plog[pid].stopClients = {}

GraceCancelledWitness ==
  \E pid \in PollerIds :
    /\ plog[pid].cancelled
    /\ poller[pid].clientSockets # {}
    /\ poller[pid].graceStopTimeout = "null"

\* the clients other than the round trip's socket, before its subscribe
RoundOthers == pround.clients \ {pround.sock}

ExactlyOncePassThrough ==
  \A id \in MsgIds : flog.presented[id] >= 2 => flog.written[id] = 1

\* a dedup window smaller than the ids that occur
SeenCap == NumIds - 1

\* C8: the set of seen ids never holds more than the window's K ids (the
\* oldest id is evicted when the K+1st is inserted).
SeenBounded == Cardinality(feed.seen) <= SeenCap

\* the first three attach attempts failed
FailedThrice ==
  Len(clog) >= 3 /\ \A i \in 1..3 : ~clog[i].ok

\* C9: when the first three attach attempts fail and the fourth succeeds, the
\* live chat is set and started by the fourth attempt and by none before; and
\* a manager whose attempts all failed so far makes the next attempt by
\* itself, whether or not a subscriber attaches.
RetryReachesAttached ==
  /\ [](FailedThrice =>
          /\ \A i \in 1..3 : clog[i].livechat = "null"
          /\ (Len(clog) >= 4 /\ clog[4].ok) => clog[4].livechat = "started")
  /\ \A n \in 0..3 :
       (managers # NoEntry /\ Len(clog) = n /\ \A i \in 1..n : ~clog[i].ok)
         ~> (Len(clog) = n + 1)

RetryWitness ==
  /\ FailedThrice /\ Len(clog) = 4 /\ clog[4].ok
  /\ mgr.livechat = "started"
  /\ Cardinality({s \in Sockets : ws[s].stage # "none"}) = 1
  /\ Cardinality(mgr.clients) = 1

\* C7: a chatBatch never carries an id that an earlier chatBatch of the same
\* poller carried.
NoReEmit ==
  \A pid \in PollerIds : Range(plog[pid].lastBatch) \cap plog[pid].seenBefore = {}

\* C10: after a failed initialisation a poller with attached subscribers keeps
\* a loop that will retry; it does not end.
InitRetried ==
  \A pid \in PollerIds :
    (pollers = pid /\ plog[pid].initFailed /\ poller[pid].clientSockets # {})
      => LoopAlive(poller[pid])

\* C11: at most one _fetchOnce call of a poller is in flight at any time,
\* whatever the sequence of start() and stop() calls: of the loop tasks of one
\* Poller at most one is awaiting _fetchOnce.
FetchesInFlight(rec) == Cardinality({t \in Tasks : rec.pc[t] = "fetch"})
OneFetchInFlight == \A pid \in PollerIds : FetchesInFlight(poller[pid]) <= 1

\* a second loop task is held by the re-entrancy guard while the _fetchOnce
\* of an earlier one is pending
SecondLoopHeld ==
  \E pid \in PollerIds, t, u \in Tasks :
    poller[pid].pc[t] = "fetch" /\ poller[pid].pc[u] = "guard"

\* C12: a fetch that fails (non-OK response, network error, or an exception
\* raised while the response is processed) leaves the cursor as it was before
\* that fetch: every step that counts a failure keeps the continuation.
CursorKeptOnFailure ==
  [][\A pid \in PollerIds :
       poller'[pid].failureCount > poller[pid].failureCount
         => poller'[pid].continuation = poller[pid].continuation]_vars

\* C13: after a successful fetch whose response carries a new cursor the
\* poller's continuation equals that cursor, and the next fetch is issued with
\* exactly that cursor in its payload.
CursorFollowsResponse ==
  \A pid \in PollerIds :
    plog[pid].got # NullTok
      => /\ poller[pid].continuation = plog[pid].got
         /\ \A t \in Tasks : poller[pid].pc[t] = "fetch" => poller[pid].sent = plog[pid].got

\* the fetch after a successful one is in flight, with the cursor it returned
NextFetchIssued ==
  \E pid \in PollerIds, t \in Tasks :
    /\ plog[pid].got = NumTokens
    /\ poller[pid].pc[t] = "fetch"
    /\ poller[pid].sent = NumTokens

\* C14: the inter-poll wait has a floor that is never bypassed: freqMs of a
\* poller is at least 250 ms whatever freqMs the subscribe requests carry, and
\* every fetch is issued by a loop task whose wait of freqMs has just elapsed,
\* or, the first one, by a task whose initialisation has just completed.
WaitNeverBypassed ==
  /\ [](\A pid \in PollerIds : poller[pid].made => poller[pid].freqMs >= MinFreqMs)
  /\ [][\A pid \in PollerIds, t \in Tasks :
          (poller[pid].pc[t] # "fetch" /\ poller'[pid].pc[t] = "fetch")
            => poller[pid].pc[t] \in {"wait", "init"}]_vars

\* C15: the count of consecutive failures stays between 0 and 4: a successful
\* fetch resets it, and the 4th failure in a row forces a re-initialisation
\* that resets it, so that a forced re-initialisation is only ever awaited
\* with the count at 4.
FailureCountBounded ==
  \A pid \in PollerIds :
    /\ poller[pid].failureCount \in 0..(MaxFailures + 1)
    /\ \A t \in Tasks : poller[pid].pc[t] = "reinit"
                            => poller[pid].failureCount = MaxFailures + 1

\* C16: after a forced re-initialisation that completed without throwing, the
\* poller's continuation is the one its page carried, not the token that was
\* held while the failures occurred.
ReinitRenewsToken ==
  \A pid \in PollerIds :
    plog[pid].reinitPage # {} => poller[pid].continuation \in plog[pid].reinitPage

\* C17: when the poll loop has ended (running is false, no loop task is left)
\* while clients are attached, a status or error event was emitted to the
\* poller's room.
LoopEndNotified ==
  \A pid \in PollerIds :
    (/\ \E t \in Tasks : poller[pid].pc[t] = "ended"
     /\ ~poller[pid].running
     /\ ~LoopAlive(poller[pid])
     /\ HasClients(poller[pid], psock))
      => plog[pid].events \cap {"status", "error"} # {}

\* C18: every entry of the pollers map is a poller with an active loop: it is
\* running and one of its loop tasks is unfinished.
RegistryHoldsActive ==
  pollers # NoEntry => poller[pollers].running /\ LoopAlive(poller[pollers])

\* C19: once stop() has been called a poller emits no further chatBatch to
\* its room, also when a fetch was in flight at the moment of the call.
SilentAfterStop == \A pid \in PollerIds : plog[pid].stopped => ~plog[pid].late

\* C20: after stop() no loop task of the poller is left at a wait that was
\* cleared and will never resolve: a task that was waiting is unblocked and
\* leaves the loop.
StopUnblocksWait ==
  \A pid \in PollerIds, t \in Tasks :
    plog[pid].stopped => poller[pid].pc[t] # "hung"

\* C21: when the live chat emits 'end' (or 'error') the clients that are open
\* are sent a status message, the livechat is cleared and the client set is
\* kept; afterwards the loop calls attach() again on a tick of its timer,
\* whether or not a further socket connects, and an attach() that resolves
\* sets and starts the new live chat without changing the client set.
EndThenReattach ==
  /\ [][(mgr.livechat = "started" /\ mgr'.livechat = "null")
          => /\ mgr'.clients = mgr.clients
             /\ Len(cout'.sent) = 1
             /\ cout'.sent[1].msg.type = "status"
             /\ cout'.sent[1].to = {c \in mgr.clients : ws[c].open}]_vars
  /\ [][(mgr.livechat = "null" /\ mgr'.livechat = "started")
          => mgr.pc = "attach" /\ mgr'.clients = mgr.clients /\ ws' = ws]_vars
  /\ [][(mgr.pc = "attach" /\ mgr'.pc # "attach")
          => \/ mgr'.livechat = "started"
             \/ mgr'.livechat = "null" /\ mgr'.timer = "pending"]_vars
  /\ (managers = Mapped /\ mgr.livechat = "null") ~> (mgr.pc = "attach")

EndThenReattachWitness ==
  /\ Len(cout.sent) = 1
  /\ cout.sent[1].msg = Status("ended") /\ cout.sent[1].to # {}
  /\ mgr.livechat = "started"
  /\ Cardinality({s \in Sockets : ws[s].stage # "none"}) = 1

\* C22: the stream ends after a failed re-resolution of an ended feed only
\* when no subscriber remains: while the subscriber is connected it keeps
\* retrying the resolution.
RetriesWhileSubscribed ==
  [][(stream.pc = "retry" /\ stream'.pc = "done") => ~stream.connected]_vars

\* C23: when attach() fails while the manager has no client, the manager
\* schedules no further attempt: its timer is not set again.
NoRetryWithoutClients ==
  [][(/\ mgr.pc = "attach" /\ mgr'.pc # "attach"
      /\ mgr'.livechat = "null"
      /\ mgr.clients = {})
        => mgr'.timer # "pending"]_vars

\* C24: whatever the manager broadcasts is delivered only to sockets that
\* addClient had added before the broadcast: a socket that attaches later
\* receives none of the messages produced before its attachment.
NoBacklog ==
  [][cout' # cout =>
       \A i \in 1..Len(cout'.sent) :
         cout'.sent[i].to \subseteq {s \in Sockets : ws[s].stage = "added"}]_vars

NoBacklogWitness ==
  /\ Len(cout.sent) > 0
  /\ cout.sent[1].msg.type = "single"
  /\ cout.sent[1].to # {}
  /\ \E s \in Sockets :
       ws[s].stage = "added" /\ ws[s].open /\ s \notin cout.sent[1].to

\* C25: the messages of one chatBatch of the Poller, and the 'single'
\* messages the ChatManager broadcasts for one event, are in the order of
\* their actions in the upstream response; each of the manager's messages
\* goes to every open client, one message after the other.
BatchKeepsOrder ==
  /\ \A pid \in PollerIds : ~plog[pid].disorder
  /\ (~Throws(cout.evt) /\ \A i \in 1..Len(cout.sent) : cout.sent[i].msg.type = "single")
       => /\ InOrder([i \in 1..Len(cout.sent) |-> cout.sent[i].msg.id], cout.evt)
          /\ \A i \in 1..Len(cout.sent) : cout.sent[i].to = cout.sent[1].to

BatchKeepsOrderWitness ==
  \E pid \in PollerIds : "chatBatchOfMany" \in plog[pid].events

SinglesInOrderReached ==
  /\ Len(cout.evt) = MaxActions
  /\ Len(cout.sent) = MaxActions
  /\ cout.sent[1].msg.id # cout.sent[MaxActions].msg.id
  /\ cout.sent[1].to # {}

\* C26: the messages of the last response were all emitted, also when an
\* action of that response was malformed and its parsing threw: only the
\* malformed action is dropped.
SiblingsDelivered ==
  \A pid \in PollerIds : plog[pid].lastBatch = plog[pid].owed

\* C27: every status message broadcast to the clients carries one of the
\* fixed texts; none carries the text of an error.
OnlyFixedStatus ==
  \A i \in 1..Len(cout.sent) :
    cout.sent[i].msg.type = "status" => cout.sent[i].msg.text \in {"waiting", "ended"}

\* C28: an event without an id gets the same id from the same normalizer
\* each time it is normalized.
SynthesizedIdStable ==
  (/\ Len(norm.res) = 2
   /\ norm.raw.id = Absent
   /\ norm.res[1].msg /\ norm.res[2].msg)
    => norm.res[1].id = norm.res[2].id

\* the runs of the normalized event that are text or emoji runs, and the
\* k-th of them
KnownRuns == {i \in 1..Len(norm.raw.runs) : norm.raw.runs[i].kind # "other"}
KnownRun(k) == CHOOSE i \in KnownRuns : Cardinality({j \in KnownRuns : j < i}) = k - 1

\* C29: the parts parseChatAction returns have one entry per run of the
\* message, in the order of the runs, a text part for a text run and an emoji
\* part for an emoji run; the segments runsToHtml writes follow the order of
\* the text and emoji runs.
PartsFollowRuns ==
  \A n \in 1..Len(norm.res) :
    LET runs == norm.raw.runs
        parts == norm.res[n].parts
    IN norm.res[n].msg =>
         /\ norm.fn = "parseChatAction" =>
               /\ Len(parts) = Len(runs)
               /\ \A i \in 1..Len(runs) :
                    runs[i].kind \in {"text", "emoji"}
                      => parts[i] = [type |-> runs[i].kind, val |-> runs[i].val]
         /\ norm.fn = "parseActions" =>
               /\ Len(parts) = Cardinality(KnownRuns)
               /\ \A k \in 1..Len(parts) :
                    /\ parts[k].val = runs[KnownRun(k)].val
                    /\ parts[k].type = "text" <=> runs[KnownRun(k)].kind = "text"

PartsFollowRunsWitness ==
  /\ norm.fn = "parseChatAction"
  /\ Len(norm.res) > 0 /\ norm.res[1].msg
  /\ Len(norm.raw.runs) = MaxRuns
  /\ norm.raw.runs[1].kind = "emoji" /\ norm.raw.runs[MaxRuns].kind = "text"
  /\ norm.raw.runs[1].val # norm.raw.runs[MaxRuns].val
  /\ Len(norm.res[1].parts) = MaxRuns

\* the wrappers and renderers each normalizer takes for a message
Recognized(fn, raw) ==
  IF fn = "parseChatAction"
    THEN /\ raw.wrap = "addChatItemAction"
         /\ raw.kind \in {"text", "paid", "membership", "tickerSponsor"}
  ELSE IF fn = "extractRenderable"
    THEN /\ raw.wrap \in {"addChatItemAction", "addLiveChatItemAction"}
         /\ raw.kind \in {"text", "paid", "membership", "paidSticker"}
  ELSE /\ raw.wrap = "addChatItemAction"
       /\ raw.kind \in {"text", "paid", "membership"}

\* C30: a normalizer returns no message for an event whose kind is not one
\* it recognizes, and a message for every event whose kind it recognizes.
KindsFiltered ==
  \A n \in 1..Len(norm.res) :
    IF Recognized(norm.fn, norm.raw) THEN norm.res[n].msg ELSE norm.res[n] = NoMsg

KindsFilteredWitness ==
  /\ Len(norm.res) = 2
  /\ norm.raw.wrap = "addChatItemAction" /\ norm.raw.kind = "other"
  /\ norm.res[1] = NoMsg /\ norm.res[2] = NoMsg

\* C32: a mapped listener state whose interval is set, that holds a socket,
\* has no started live chat and no start in flight, eventually issues the
\* tryStartOnce of a poll tick (or gets a live chat, or loses its sockets).
AttemptFollows ==
  \A st \in StateIds :
    (/\ listeners = st /\ lstate[st].pollTimer = "active"
     /\ lstate[st].sockets # {} /\ lstate[st].livechat # "started"
     /\ ltask[st].start = "idle")
      ~> (\/ ltask[st].tick = "resolve"
          \/ lstate[st].livechat = "started"
          \/ lstate[st].sockets = {})

\* C33: the interval callback issues its tryStartOnce only while the socket
\* set of its listener state is not empty.
TimerPollsOnlyWithSockets ==
  [][\A st \in StateIds :
       (ltask[st].tick = "idle" /\ ltask'[st].tick = "resolve")
         => lstate[st].sockets # {}]_vars

\* the socket set became empty after the interval was set, and no resolve
\* request is in flight for it
TimerIdleWitness ==
  \E st \in StateIds :
    /\ lstate[st].sockets = {} /\ lstate[st].pollTimer = "cleared"
    /\ lstate[st].videoId = NoVideo /\ ltask[st].tick = "idle"

\* C35: once every socket that joined has disconnected and nothing is in
\* flight, no listener state holds an active poll timer or a started live chat.
IdleAfterLastDisconnect ==
  (/\ \E s \in Sockets : lsock[s].channel
   /\ \A s \in Sockets : lsock[s].channel => ~lsock[s].connected
   /\ \A st \in StateIds :
        /\ ltask[st].ensure \in {"none", "done"}
        /\ ltask[st].start = "idle" /\ ltask[st].tick = "idle")
    => \A st \in StateIds : ~ListenerActive(st)

\* C37: a socket that has closed is eventually absent from the clients set
\* of its ChatManager, whenever it closed.
ClosedLeavesClients ==
  \A s \in Sockets :
    (ws[s].stage # "none" /\ ~ws[s].open) ~> (s \notin mgr.clients)

\* C38: a stopped manager eventually has no started live chat and no pending
\* loop timer.
StoppedStaysQuiet ==
  mgr.stopped ~> (mgr.livechat = "null" /\ mgr.timer # "pending")

\* C36: once the subscriber's connection of an /sse handler has closed, the
\* handler's poll loop eventually ends.
ClosedFeedEnds ==
  (feed.kind = "sse" /\ feed.closed) ~> (feed.pc = "ended")

\* the keys /create has answered
Returned == {links.req[r].key : r \in {q \in Requests : links.req[q].pc = "done"}}

OneKeyPerChannel ==
  \A c \in Channels : Cardinality(KeysOf(links.file, c)) <= 1

ReturnedResolvable ==
  \A k \in Returned : Resolves(links.file, k)

\* C34: the links file holds at most one key per channelId, and every key
\* that /create has answered is resolvable by GET /links/:key.
LinksKept == OneKeyPerChannel /\ ReturnedResolvable

\* C31: a request is forwarded upstream only to a host of the allow-list; a
\* target with any other hostname is answered 403 by the proxy and a missing
\* url parameter 400, both without an upstream request.
AllowListEnforced ==
  /\ proxy.fetched # "none" =>
        /\ proxy.target.present /\ proxy.target.valid
        /\ proxy.fetched = Hostname(proxy.target)
        /\ proxy.fetched \in AllowedHosts
  /\ proxy.pc # "idle" /\ ~proxy.target.present =>
        /\ proxy.answer = [status |-> BadRequest, by |-> "proxy"]
        /\ proxy.fetched = "none"
  /\ (/\ proxy.pc # "idle" /\ proxy.target.present /\ proxy.target.valid
      /\ Hostname(proxy.target) \notin AllowedHosts) =>
        /\ proxy.answer = [status |-> Forbidden, by |-> "proxy"]
        /\ proxy.fetched = "none"

\* a target whose written URL starts with an allowed host name but whose
\* hostname is foreign was refused
ForeignRefusedWitness ==
  /\ proxy.pc = "done" /\ proxy.target.present /\ proxy.target.valid
  /\ proxy.target.userinfo /\ proxy.target.host = "www.youtube.com.evil.example"
  /\ proxy.answer.status = Forbidden /\ proxy.fetched = "none"

====
